---- MODULE Spec2Model ----
(***************************************************************************)
(* A model of the password manager in src/src/main.rs: one store file      *)
(* (passwords.enc), processes that read a master password, load the store, *)
(* and serve the menu (add / retrieve / list / exit).                      *)
(*                                                                         *)
(* Bytes are the integers 0..255, strings are sequences of bytes.  The     *)
(* credential mapping (HashMap<String, String>) is a set of                *)
(* <<account, secret>> pairs maintained by Insert, so that "an account     *)
(* occurs once" is a property of the code and not of the notation.         *)
(*                                                                         *)
(* The two library primitives the program calls are modelled by what they  *)
(* do to the bytes, with the arithmetic made small:                        *)
(*   - SHA-256 is a 32-byte digest spread from a hash of the passphrase;   *)
(*   - AES-256-GCM is a stream cipher (byte-wise keystream addition mod    *)
(*     256 where GCM's CTR mode XORs) followed by a 16-byte tag computed   *)
(*     from the key, the nonce, the length and a sum of the ciphertext     *)
(*     bytes weighted by position and key over the prime field Z_46337     *)
(*     (GHASH is such a keyed sum over GF(2^128)).                         *)
(* The JSON text is the text serde_json writes and reads, byte for byte.   *)
(***************************************************************************)
EXTENDS Integers, Sequences, FiniteSets, TLC

VARIABLES
    pc,               \* per process: "off", "start" (at the master password
                      \* prompt), "menu" (in the loop), "exited"
    master_password,  \* per process: main's master_password
    store,            \* per process: main's store.passwords
    exit_code,        \* per process: <<>> while it runs, <<code>> once exited
    storage_file,     \* the file STORAGE_FILE: exists, readable, bytes
    event,            \* history: the step taken last and what it printed
    opened,           \* history, per process: calls of File::open so far
    upserted,         \* history, per process: <<account, secret, again>>, the
                      \* latest secret the user gave for each account in this
                      \* session, and whether it replaced another secret
    writer,           \* history: the master password of the last save
    tampered,         \* history: the file was altered since the last save
    torn              \* history: the last save was cut off by a crash

vars == <<pc, master_password, store, exit_code, storage_file, event, opened,
          upserted, writer, tampered, torn>>

\* ------------------------------------------------------------------ bounds

\* How many different secrets the user may type.
NumSecrets == 2

\* The account names, secrets and master passwords the user may type.
\* "" and "a"; the empty account name is accepted by the program.
Accounts == { <<>>, <<97>> }
\* "x", the one-character secret that is a double quote, "y", a backslash.
SecretList == << <<120>>, <<34>>, <<121>>, <<92>> >>
Secrets == { SecretList[i] : i \in 1..NumSecrets }
\* "h" and "w"
Passphrases == { <<104>>, <<119>> }

\* The bits of a byte the environment may flip: the lowest and the highest.
FlipBits == {0, 7}

\* ------------------------------------------------------- program constants

\* aead::AES_256_GCM.tag_len()
TagLen == 16
\* [0u8; 12]
NonceLen == 12
\* [0u8; 32]
KeyLen == 32

\* ------------------------------------------------------------------ helpers

\* The sequence f with every element computed (a tuple of n values).
Seq_(f, n) == SubSeq(f, 1, n)

Zeros(n) == Seq_([i \in 1..n |-> 0], n)

RECURSIVE Pow2(_)
Pow2(n) == IF n = 0 THEN 1 ELSE 2 * Pow2(n - 1)

\* Option<Vec<u8>>
None == [some |-> FALSE, val |-> <<>>]
Some(v) == [some |-> TRUE, val |-> v]

\* The weight of position i in a hash at point h: never 0 mod 46337 for the
\* points and lengths used (46337 is prime, and h + i and h + 2i + 1 are
\* both between 1 and 46336).
Weight(h, i) == ((h + i) * (h + 2 * i + 1)) % 46337

\* The sum of (c[i] + 1) * Weight(h, i) for i in lo..hi, mod 46337,
\* computed by halves.
RECURSIVE PolyHash(_, _, _, _)
PolyHash(c, h, lo, hi) ==
    IF lo > hi THEN 0
    ELSE IF lo = hi THEN ((c[lo] + 1) * Weight(h, lo)) % 46337
    ELSE LET mid == (lo + hi) \div 2
         IN  (PolyHash(c, h, lo, mid) + PolyHash(c, h, mid + 1, hi)) % 46337

\* ----------------------------------------------------------- key derivation

\* ring::digest::digest(&SHA256, bytes): a running hash of the bytes,
\* spread over 32 output bytes.
digest(bytes) ==
    LET h == (5381 + 33 * Len(bytes) + PolyHash(bytes, 33, 1, Len(bytes)))
                 % 46337
    IN  Seq_([i \in 1..KeyLen |-> ((h + i) * (i + 7) + (h \div 256)) % 256],
             KeyLen)

generate_key_from_password(password) ==
    LET d == digest(password)
        key == Seq_([i \in 1..KeyLen |-> d[i]], KeyLen)
    IN  key

\* ------------------------------------------------------------------- cipher

\* The keystream byte at position i under (key, nonce).
KeyStream(key, nonce, i) ==
    (key[((i - 1) % KeyLen) + 1] * 3 + key[((5 * i) % KeyLen) + 1]
        + nonce[((i - 1) % NonceLen) + 1] + 7 * i) % 256

\* The point at which the tag polynomial is evaluated, and its mask.
KeySum(key) == PolyHash(key, 31, 1, Len(key))

HashPoint(key) == 2 + (KeySum(key) % 23000)

TagMask(key, nonce) == (3 * KeySum(key) + 17 * KeySum(nonce) + 1) % 46337

\* The 16-byte tag of ciphertext c under (key, nonce).
Tag(key, nonce, c) ==
    LET h == HashPoint(key)
        n == Len(c)
        g == (TagMask(key, nonce) + PolyHash(c, h, 1, n) + n * h) % 46337
    IN  Seq_([j \in 1..TagLen |->
                 IF j = 1 THEN g % 256
                 ELSE IF j = 2 THEN g \div 256
                 ELSE (g * j + key[j] + (g \div 256)) % 256], TagLen)

\* LessSafeKey::seal_in_place_append_tag(nonce, Aad::empty(), &mut in_out):
\* encrypts ALL of in_out in place and then appends the tag to it.
seal_in_place_append_tag(key, nonce, buf) ==
    LET c == Seq_([i \in 1..Len(buf) |->
                      (buf[i] + KeyStream(key, nonce, i)) % 256], Len(buf))
    IN  c \o Tag(key, nonce, c)

\* open_in_place without the comparison of the tag.
open_in_place_unverified(key, nonce, buf) ==
    IF Len(buf) < TagLen THEN None
    ELSE LET n == Len(buf) - TagLen
         IN  Some(Seq_([i \in 1..n |->
                          (buf[i] + 256 - KeyStream(key, nonce, i)) % 256], n))

\* LessSafeKey::open_in_place(nonce, Aad::empty(), &mut in_out): Err when the
\* input is shorter than a tag or the tag does not verify; otherwise the
\* plaintext, which is everything before the tag.
open_in_place(key, nonce, buf) ==
    IF Len(buf) < TagLen THEN None
    ELSE LET n == Len(buf) - TagLen
             c == SubSeq(buf, 1, n)
             t == SubSeq(buf, n + 1, Len(buf))
         IN  IF Tag(key, nonce, c) # t THEN None
             ELSE Some(Seq_([i \in 1..n |->
                          (c[i] + 256 - KeyStream(key, nonce, i)) % 256], n))

\* A nonce that is not all zero: the bytes 1, 2, .., 12.
nonce_bytes_counting == Seq_([i \in 1..NonceLen |-> i], NonceLen)

\* let nonce_bytes = [0u8; 12];
nonce_bytes == Zeros(NonceLen)

encrypt_data(key_bytes, data) ==
    LET in_out == data \o Zeros(TagLen)
    IN  seal_in_place_append_tag(key_bytes, nonce_bytes, in_out)

decrypt_data(key_bytes, data) ==
    LET in_out == data
    IN  open_in_place(key_bytes, nonce_bytes, in_out)

\* ------------------------------------------------------------- the mapping

\* An insert that keeps the entry that is already there (a list push).
InsertKeepingOld(passwords, k, v) == passwords \cup { <<k, v>> }

\* HashMap::insert(k, v): the entry for k, if any, is replaced.
Insert(passwords, k, v) ==
    { e \in passwords : e[1] # k } \cup { <<k, v>> }

\* HashMap::get(k) -> Option<&String>
Get(passwords, k) ==
    IF \E e \in passwords : e[1] = k
    THEN Some((CHOOSE e \in passwords : e[1] = k)[2])
    ELSE None

\* The orders in which a HashMap's iterator may yield the entries: every
\* arrangement of them (the hasher is seeded at random per process).
IterOrders(passwords) ==
    { o \in [1..Cardinality(passwords) -> passwords] :
        \A i, j \in DOMAIN o : i # j => o[i] # o[j] }

\* --------------------------------------------------------------- serializer

\* {"passwords":{
JsonHead == <<123, 34, 112, 97, 115, 115, 119, 111, 114, 100, 115, 34, 58, 123>>

\* serde_json's format_escaped_str for the bytes of the model: a double quote
\* and a backslash are escaped with a backslash.
RECURSIVE EscapeStr(_)
EscapeStr(s) ==
    IF s = <<>> THEN <<>>
    ELSE (IF Head(s) \in {34, 92} THEN <<92, Head(s)>> ELSE <<Head(s)>>)
            \o EscapeStr(Tail(s))

JsonStr(s) == <<34>> \o EscapeStr(s) \o <<34>>

RECURSIVE JsonEntries(_)
JsonEntries(order) ==
    IF order = <<>> THEN <<>>
    ELSE JsonStr(Head(order)[1]) \o <<58>> \o JsonStr(Head(order)[2])
            \o (IF Len(order) > 1 THEN <<44>> ELSE <<>>)
            \o JsonEntries(Tail(order))

\* serde_json::to_vec(store), the map's entries written in iteration order.
to_vec(order) == JsonHead \o JsonEntries(order) \o <<125, 125>>

\* serde_json skips ' ', '\n', '\t', '\r' between tokens and at the end.
RECURSIVE SkipWs(_, _)
SkipWs(b, i) ==
    IF i <= Len(b) /\ b[i] \in {32, 10, 9, 13} THEN SkipWs(b, i + 1) ELSE i

At(b, i) == IF i <= Len(b) THEN b[i] ELSE -1

StrErr == [ok |-> FALSE, val |-> <<>>, next |-> 0]

\* The characters of a JSON string after its opening quote: ends at the
\* closing quote; a control character, a byte that is not ASCII, the end of
\* input or an escape other than \" \\ \/ is an error.
RECURSIVE ScanStr(_, _, _)
ScanStr(b, i, acc) ==
    IF i > Len(b) THEN StrErr
    ELSE IF b[i] = 34 THEN [ok |-> TRUE, val |-> acc, next |-> i + 1]
    ELSE IF b[i] = 92 THEN
        IF At(b, i + 1) \in {34, 92, 47}
        THEN ScanStr(b, i + 2, Append(acc, b[i + 1]))
        ELSE StrErr
    ELSE IF b[i] < 32 \/ b[i] > 127 THEN StrErr
    ELSE ScanStr(b, i + 1, Append(acc, b[i]))

ParseStr(b, i) == IF At(b, i) = 34 THEN ScanStr(b, i + 1, <<>>) ELSE StrErr

MapErr == [ok |-> FALSE, val |-> {}, next |-> 0]

\* The entries of a JSON object of strings after its opening brace.
RECURSIVE ParseEntries(_, _, _, _)
ParseEntries(b, i, acc, first) ==
    LET i0 == SkipWs(b, i)
    IN  IF first /\ At(b, i0) = 125
        THEN [ok |-> TRUE, val |-> acc, next |-> i0 + 1]
        ELSE LET k == ParseStr(b, i0)
                 c == SkipWs(b, k.next)
                 v == ParseStr(b, SkipWs(b, c + 1))
                 e == SkipWs(b, v.next)
             IN  IF ~k.ok \/ At(b, c) # 58 \/ ~v.ok THEN MapErr
                 ELSE IF At(b, e) = 44
                      THEN ParseEntries(b, e + 1, Insert(acc, k.val, v.val), FALSE)
                 ELSE IF At(b, e) = 125
                      THEN [ok |-> TRUE, val |-> Insert(acc, k.val, v.val),
                            next |-> e + 1]
                 ELSE MapErr

\* serde_json::from_slice::<PasswordStore>(bytes): the object with the one
\* field "passwords" (its opening compared with the bytes to_vec writes),
\* then Deserializer::end(), which fails on any byte after the value that is
\* not whitespace.
from_slice(b) ==
    IF Len(b) < Len(JsonHead) \/ SubSeq(b, 1, Len(JsonHead)) # JsonHead
    THEN [ok |-> FALSE, val |-> {}]
    ELSE LET m == ParseEntries(b, Len(JsonHead) + 1, {}, TRUE)
             c == SkipWs(b, m.next)
         IN  IF ~m.ok \/ At(b, c) # 125 THEN [ok |-> FALSE, val |-> {}]
             ELSE IF SkipWs(b, c + 1) <= Len(b) THEN [ok |-> FALSE, val |-> {}]
             ELSE [ok |-> TRUE, val |-> m.val]

\* ---------------------------------------------------------- encrypted store

\* A file that does not exist.
NoFile == [exists |-> FALSE, readable |-> FALSE, bytes |-> <<>>]

\* "Failed to decrypt data. Possibly wrong password.", the line
\* load_passwords prints before exit(1).
DecryptFailedMsg ==
    <<70, 97, 105, 108, 101, 100, 32, 116, 111, 32, 100, 101, 99, 114,
      121, 112, 116, 32, 100, 97, 116, 97, 46, 32, 80, 111, 115, 115,
      105, 98, 108, 121, 32, 119, 114, 111, 110, 103, 32, 112, 97,
      115, 115, 119, 111, 114, 100, 46>>

\* load_passwords with the decryption failure treated like the decode
\* failure: an empty store instead of exit(1).
load_passwords_lenient(file, password, read_ok) ==
    IF file.exists /\ file.readable
    THEN IF ~read_ok
         THEN [returned |-> FALSE, passwords |-> {}, code |-> 101,
               printed |-> <<>>]
         ELSE LET decrypted ==
                      decrypt_data(generate_key_from_password(password),
                                   file.bytes)
                  parsed == from_slice(decrypted.val)
              IN  [returned |-> TRUE,
                   passwords |-> IF decrypted.some /\ parsed.ok
                                 THEN parsed.val ELSE {},
                   code |-> 0, printed |-> <<>>]
    ELSE [returned |-> TRUE, passwords |-> {}, code |-> 0, printed |-> <<>>]

\* load_passwords that takes a missing file for a failure.
load_passwords_strict(file, password, read_ok) ==
    IF file.exists /\ file.readable
    THEN IF ~read_ok
         THEN [returned |-> FALSE, passwords |-> {}, code |-> 101,
               printed |-> <<>>]
         ELSE LET decrypted ==
                      decrypt_data(generate_key_from_password(password),
                                   file.bytes)
                  parsed == from_slice(decrypted.val)
              IN  IF decrypted.some
                  THEN [returned |-> TRUE,
                        passwords |-> IF parsed.ok THEN parsed.val ELSE {},
                        code |-> 0, printed |-> <<>>]
                  ELSE [returned |-> FALSE, passwords |-> {}, code |-> 1,
                        printed |-> <<DecryptFailedMsg>>]
    ELSE [returned |-> FALSE, passwords |-> {}, code |-> 1,
                        printed |-> <<DecryptFailedMsg>>]

\* load_passwords that takes a decode failure for a decryption failure:
\* the diagnostic line and exit(1).
load_passwords_decode_fatal(file, password, read_ok) ==
    IF file.exists /\ file.readable
    THEN IF ~read_ok
         THEN [returned |-> FALSE, passwords |-> {}, code |-> 101,
               printed |-> <<>>]
         ELSE LET decrypted ==
                      decrypt_data(generate_key_from_password(password),
                                   file.bytes)
                  parsed == from_slice(decrypted.val)
              IN  IF decrypted.some /\ parsed.ok
                  THEN [returned |-> TRUE, passwords |-> parsed.val,
                        code |-> 0, printed |-> <<>>]
                  ELSE [returned |-> FALSE, passwords |-> {}, code |-> 1,
                        printed |-> <<DecryptFailedMsg>>]
    ELSE [returned |-> TRUE, passwords |-> {}, code |-> 0, printed |-> <<>>]

\* What load_passwords does: returned says whether it returned a
\* PasswordStore (passwords) or ended the process (with exit code code),
\* and printed is what it wrote to standard output.
\* read_ok is whether read_to_end succeeds on the opened file.
load_passwords(file, password, read_ok) ==
    IF file.exists /\ file.readable
    THEN IF ~read_ok
         THEN [returned |-> FALSE, passwords |-> {}, code |-> 101,
               printed |-> <<>>]
         ELSE LET encrypted_data == file.bytes
                  key_bytes == generate_key_from_password(password)
                  decrypted == decrypt_data(key_bytes, encrypted_data)
              IN  IF decrypted.some
                  THEN LET parsed == from_slice(decrypted.val)
                       IN  [returned |-> TRUE,
                            passwords |-> IF parsed.ok THEN parsed.val ELSE {},
                            code |-> 0, printed |-> <<>>]
                  ELSE [returned |-> FALSE, passwords |-> {}, code |-> 1,
                        printed |-> <<DecryptFailedMsg>>]
    ELSE [returned |-> TRUE, passwords |-> {}, code |-> 0, printed |-> <<>>]

\* The file after save_passwords, the map serialized in iteration order
\* order.  File::create makes the file or empties the one that is there;
\* it and write_all are taken to succeed.
save_passwords(file, order, password) ==
    LET data == to_vec(order)
        key_bytes == generate_key_from_password(password)
        encrypted == encrypt_data(key_bytes, data)
    IN  [exists |-> TRUE,
         readable |-> IF file.exists THEN file.readable ELSE TRUE,
         bytes |-> encrypted]

\* ------------------------------------------------------------------- state

Procs == {1, 2}

NoEvent == [proc |-> 0, op |-> "init", account |-> <<>>, out |-> <<>>]

Init ==
    /\ pc = [p \in Procs |-> "off"]
    /\ master_password = [p \in Procs |-> <<>>]
    /\ store = [p \in Procs |-> {}]
    /\ exit_code = [p \in Procs |-> <<>>]
    /\ storage_file = NoFile
    /\ event = NoEvent
    /\ opened = [p \in Procs |-> 0]
    /\ upserted = [p \in Procs |-> {}]
    /\ writer = <<>>
    /\ tampered = FALSE
    /\ torn = FALSE

\* No process is running.
NoSession == \A p \in Procs : pc[p] \in {"off", "exited"}

\* -------------------------------------------------------------------- main

\* The process is started: the banner and the master password prompt.
Start(p) ==
    /\ pc[p] \in {"off", "exited"}
    /\ pc' = [pc EXCEPT ![p] = "start"]
    /\ master_password' = [master_password EXCEPT ![p] = <<>>]
    /\ store' = [store EXCEPT ![p] = {}]
    /\ exit_code' = [exit_code EXCEPT ![p] = <<>>]
    /\ opened' = [opened EXCEPT ![p] = 0]
    /\ upserted' = [upserted EXCEPT ![p] = {}]
    /\ event' = [proc |-> p, op |-> "start", account |-> <<>>, out |-> <<>>]
    /\ UNCHANGED <<storage_file, writer, tampered, torn>>

\* main with the load put off until the first operation.
ReadMasterPasswordOnly(p, password, read_ok) ==
    /\ pc[p] = "start"
    /\ read_ok
    /\ pc' = [pc EXCEPT ![p] = "menu"]
    /\ master_password' = [master_password EXCEPT ![p] = password]
    /\ event' = [proc |-> p, op |-> "load", account |-> <<>>, out |-> <<>>]
    /\ UNCHANGED <<store, exit_code, opened, storage_file, upserted, writer,
                   tampered, torn>>

\* main with a load that starts the store afresh when it cannot decrypt
\* it: the file is emptied before the process exits.
ReadMasterPasswordResetting(p, password, read_ok) ==
    /\ pc[p] = "start"
    /\ read_ok \/ (storage_file.exists /\ storage_file.readable)
    /\ LET r == load_passwords(storage_file, password, read_ok)
       IN  /\ pc' = [pc EXCEPT ![p] = IF r.returned THEN "menu" ELSE "exited"]
           /\ store' = [store EXCEPT ![p] = r.passwords]
           /\ exit_code' = [exit_code EXCEPT
                               ![p] = IF r.returned THEN <<>> ELSE <<r.code>>]
           /\ event' = [proc |-> p, op |-> "load", account |-> <<>>,
                        out |-> r.printed]
           /\ storage_file' = IF r.returned \/ r.code # 1 THEN storage_file
                              ELSE [storage_file EXCEPT !.bytes = <<>>]
    /\ master_password' = [master_password EXCEPT ![p] = password]
    /\ opened' = [opened EXCEPT ![p] = @ + 1]
    /\ UNCHANGED <<upserted, writer, tampered, torn>>

\* read_password() returns password; load_passwords runs; the process is
\* then in the menu loop, or has ended.
ReadMasterPassword(p, password, read_ok) ==
    /\ pc[p] = "start"
    /\ read_ok \/ (storage_file.exists /\ storage_file.readable)
    /\ LET r == load_passwords(storage_file, password, read_ok)
       IN  /\ pc' = [pc EXCEPT ![p] = IF r.returned THEN "menu" ELSE "exited"]
           /\ store' = [store EXCEPT ![p] = r.passwords]
           /\ exit_code' = [exit_code EXCEPT
                               ![p] = IF r.returned THEN <<>> ELSE <<r.code>>]
           /\ event' = [proc |-> p, op |-> "load", account |-> <<>>,
                        out |-> r.printed]
    /\ master_password' = [master_password EXCEPT ![p] = password]
    /\ opened' = [opened EXCEPT ![p] = @ + 1]
    /\ UNCHANGED <<storage_file, upserted, writer, tampered, torn>>

\* Option 1 with the two calls in the other order: save_passwords, then
\* insert, so that the file is one entry behind the session.
AddPasswordSaveFirst(p, account, password) ==
    /\ pc[p] = "menu"
    /\ store' = [store EXCEPT ![p] = Insert(@, account, password)]
    /\ \E order \in IterOrders(store[p]) :
         storage_file' =
             save_passwords(storage_file, order, master_password[p])
    /\ writer' = master_password[p]
    /\ tampered' = FALSE
    /\ torn' = FALSE
    /\ upserted' = [upserted EXCEPT
                       ![p] = { u \in @ : u[1] # account }
                                  \cup { <<account, password,
                                           \E u \in @ : /\ u[1] = account
                                                        /\ u[2] # password>> }]
    /\ event' = [proc |-> p, op |-> "add", account |-> account, out |-> <<>>]
    /\ UNCHANGED <<pc, master_password, exit_code, opened>>

\* Option 1: insert, then save_passwords.
AddPassword(p, account, password) ==
    /\ pc[p] = "menu"
    /\ LET passwords == Insert(store[p], account, password)
       IN  /\ store' = [store EXCEPT ![p] = passwords]
           /\ \E order \in IterOrders(passwords) :
                storage_file' =
                    save_passwords(storage_file, order, master_password[p])
    /\ writer' = master_password[p]
    /\ tampered' = FALSE
    /\ torn' = FALSE
    /\ upserted' = [upserted EXCEPT
                       ![p] = { u \in @ : u[1] # account }
                                  \cup { <<account, password,
                                           \E u \in @ : /\ u[1] = account
                                                        /\ u[2] # password>> }]
    /\ event' = [proc |-> p, op |-> "add", account |-> account, out |-> <<>>]
    /\ UNCHANGED <<pc, master_password, exit_code, opened>>

\* What a crash leaves of a save_passwords that was to write saved over
\* file and has written n bytes, when File::create opens the file without
\* emptying it: the rest of the old bytes stays behind the new ones.
torn_file_not_emptied(file, saved, n) ==
    [saved EXCEPT
        !.bytes = SubSeq(@, 1, n) \o SubSeq(file.bytes, n + 1, Len(file.bytes))]

\* What a crash leaves of a save_passwords that was to write saved over
\* file: File::create has made or emptied the file and write_all has
\* written the first n bytes of the blob.
torn_file(file, saved, n) ==
    [saved EXCEPT !.bytes = SubSeq(@, 1, n)]

\* Option 1 with the process killed (or the power lost) inside
\* save_passwords, after File::create and before write_all has written the
\* whole blob.  The process is gone: it has no mapping and no exit code.
AddPasswordCrash(p, account, password) ==
    /\ pc[p] = "menu"
    /\ LET passwords == Insert(store[p], account, password)
       IN  \E order \in IterOrders(passwords) :
             LET saved == save_passwords(storage_file, order,
                                         master_password[p])
             IN  \E n \in 0..(Len(saved.bytes) - 1) :
                    storage_file' = torn_file(storage_file, saved, n)
    /\ pc' = [pc EXCEPT ![p] = "exited"]
    /\ store' = [store EXCEPT ![p] = {}]
    /\ upserted' = [upserted EXCEPT ![p] = {}]
    /\ writer' = master_password[p]
    /\ tampered' = FALSE
    /\ torn' = TRUE
    /\ event' = [proc |-> p, op |-> "crash", account |-> <<>>, out |-> <<>>]
    /\ UNCHANGED <<master_password, exit_code, opened>>

\* A lookup that leaves an empty entry behind for an account it did not find
\* (an indexing lookup).
RetrievePasswordInserting(p, account) ==
    /\ pc[p] = "menu"
    /\ LET pw == Get(store[p], account)
       IN  /\ event' = [proc |-> p, op |-> "retrieve", account |-> account,
                        out |-> IF pw.some THEN <<pw.val>> ELSE <<>>]
           /\ store' = [store EXCEPT
                           ![p] = IF pw.some THEN @ ELSE @ \cup {<<account, <<>>>>}]
    /\ UNCHANGED <<pc, master_password, exit_code, storage_file,
                   opened, upserted, writer, tampered, torn>>

\* Option 2: the password is printed, or "No entry found for that account."
RetrievePassword(p, account) ==
    /\ pc[p] = "menu"
    /\ LET pw == Get(store[p], account)
       IN  event' = [proc |-> p, op |-> "retrieve", account |-> account,
                     out |-> IF pw.some THEN <<pw.val>> ELSE <<>>]
    /\ UNCHANGED <<pc, master_password, store, exit_code, storage_file,
                   opened, upserted, writer, tampered, torn>>

\* Option 3: the accounts are printed, in the map's iteration order.
ListEntries(p) ==
    /\ pc[p] = "menu"
    /\ \E order \in IterOrders(store[p]) :
         event' = [proc |-> p, op |-> "list", account |-> <<>>,
                   out |-> [i \in DOMAIN order |-> order[i][1]]]
    /\ UNCHANGED <<pc, master_password, store, exit_code, storage_file,
                   opened, upserted, writer, tampered, torn>>

\* Option 4: break out of the loop; main returns and the store is dropped.
Exit(p) ==
    /\ pc[p] = "menu"
    /\ pc' = [pc EXCEPT ![p] = "exited"]
    /\ exit_code' = [exit_code EXCEPT ![p] = <<0>>]
    /\ store' = [store EXCEPT ![p] = {}]
    /\ upserted' = [upserted EXCEPT ![p] = {}]
    /\ event' = [proc |-> p, op |-> "exit", account |-> <<>>, out |-> <<>>]
    /\ UNCHANGED <<master_password, storage_file, opened, writer, tampered, torn>>

\* Any other choice: "Invalid option."
InvalidOption(p) ==
    /\ pc[p] = "menu"
    /\ event' = [proc |-> p, op |-> "invalid", account |-> <<>>, out |-> <<>>]
    /\ UNCHANGED <<pc, master_password, store, exit_code, storage_file,
                   opened, upserted, writer, tampered, torn>>

\* ------------------------------------------------------------- environment
\* Between sessions the file may be altered once per save (a bit flipped, or
\* cut short, down to empty), or its read permission may be changed.  The
\* two faults are not combined: load does not read a file it cannot open.
\* Nor are they combined with a save that a crash cut off.

EnvEvent(op) == [proc |-> 0, op |-> op, account |-> <<>>, out |-> <<>>]

FlipBit(i, bit) ==
    /\ NoSession /\ storage_file.exists /\ storage_file.readable
    /\ ~tampered /\ ~torn
    /\ i \in 1..Len(storage_file.bytes)
    /\ LET b == storage_file.bytes[i]
           f == IF (b \div Pow2(bit)) % 2 = 1 THEN b - Pow2(bit)
                                             ELSE b + Pow2(bit)
       IN  storage_file' =
               [storage_file EXCEPT !.bytes = [@ EXCEPT ![i] = f]]
    /\ tampered' = TRUE
    /\ event' = EnvEvent("flip")
    /\ UNCHANGED <<pc, master_password, store, exit_code, opened, upserted,
                   writer, torn>>

Truncate(n) ==
    /\ NoSession /\ storage_file.exists /\ storage_file.readable
    /\ ~tampered /\ ~torn
    /\ n \in 0..(Len(storage_file.bytes) - 1)
    /\ storage_file' = [storage_file EXCEPT !.bytes = SubSeq(@, 1, n)]
    /\ tampered' = TRUE
    /\ event' = EnvEvent("truncate")
    /\ UNCHANGED <<pc, master_password, store, exit_code, opened, upserted,
                   writer, torn>>

SetReadable(r) ==
    /\ NoSession /\ storage_file.exists /\ storage_file.readable # r
    /\ ~tampered /\ ~torn
    /\ storage_file' = [storage_file EXCEPT !.readable = r]
    /\ event' = EnvEvent("chmod")
    /\ UNCHANGED <<pc, master_password, store, exit_code, opened, upserted,
                   writer, tampered, torn>>

\* ------------------------------------------------------------ specification

\* One process at a time: process 1, restarted after it ends.
Next ==
    \/ \E p \in {1} :
        \/ Start(p)
        \/ \E password \in Passphrases, read_ok \in BOOLEAN :
             ReadMasterPassword(p, password, read_ok)
        \/ \E account \in Accounts, password \in Secrets :
             AddPassword(p, account, password)
        \/ \E account \in Accounts : RetrievePassword(p, account)
        \/ ListEntries(p)
        \/ Exit(p)
        \/ InvalidOption(p)
    \/ \E i \in 1..Len(storage_file.bytes), bit \in FlipBits : FlipBit(i, bit)
    \/ \E n \in 0..Len(storage_file.bytes) : Truncate(n)
    \/ \E r \in BOOLEAN : SetReadable(r)

Spec == Init /\ [][Next]_vars

\* One process at a time, restarted after it ends, where a save may be cut
\* off by a crash.  The options that touch neither the mapping nor the file
\* are left out, and so are the faults of the environment.
NextCrash ==
    \E p \in {1} :
        \/ Start(p)
        \/ \E password \in Passphrases, read_ok \in BOOLEAN :
             ReadMasterPassword(p, password, read_ok)
        \/ \E account \in Accounts, password \in Secrets :
             AddPassword(p, account, password)
        \/ \E account \in Accounts, password \in Secrets :
             AddPasswordCrash(p, account, password)
        \/ Exit(p)

SpecCrash == Init /\ [][NextCrash]_vars

\* Two processes on the same store file, their steps interleaved in any
\* order: each load and each save is one step, as nothing in the program
\* locks the file.  Both users type the same master password, and
\* read_to_end succeeds.  The options that touch neither the mapping nor
\* the file are left out, and so are the faults of the environment.
NextConc ==
    \E p \in Procs :
        \/ Start(p)
        \/ \E password \in Passphrases :
             /\ \A q \in Procs \ {p} : master_password[q] \in {<<>>, password}
             /\ ReadMasterPassword(p, password, TRUE)
        \/ \E account \in Accounts, password \in Secrets :
             AddPassword(p, account, password)
        \/ Exit(p)

SpecConc == Init /\ [][NextConc]_vars

\* ------------------------------------------------------------------ claims

\* A step in which process p passes from the master password prompt into
\* load_passwords, and an event of process p.
LoadStep(p) == pc[p] = "start" /\ pc'[p] # "start"
After(p, op) == event.proc = p /\ event.op = op

\* Every mapping over the accounts and secrets of the model, and every blob
\* encrypt_data makes of one of them under the key of password.
AllMappings ==
    { m \in SUBSET (Accounts \X Secrets) :
        \A e, f \in m : e[1] = f[1] => e = f }

SealedBlobs ==
    [password \in Passphrases |->
        { encrypt_data(generate_key_from_password(password), to_vec(order)) :
            order \in UNION { IterOrders(m) : m \in AllMappings } }]

\* C1 (as claimed): right after an upsert (insert, then save_passwords), a
\* load_passwords of the store file under the session's master password
\* returns a mapping equal to the session's mapping.
C1_SaveThenLoad ==
    \A p \in Procs :
        After(p, "add") /\ storage_file.readable =>
            LET r == load_passwords(storage_file, master_password[p], TRUE)
            IN  r.returned /\ r.passwords = store[p]

\* C2 (as claimed): for the mapping m and the key k of any session in the
\* menu, and any order in which m is serialized,
\* decrypt_data(k, encrypt_data(k, to_vec(m))) is exactly the bytes
\* to_vec(m), and from_slice of it is m.
C2_RoundTrip ==
    \A p \in Procs :
        pc[p] = "menu" =>
            \A order \in IterOrders(store[p]) :
                LET k == generate_key_from_password(master_password[p])
                    data == to_vec(order)
                    back == decrypt_data(k, encrypt_data(k, data))
                IN  /\ back = Some(data)
                    /\ from_slice(back.val) = [ok |-> TRUE, val |-> store[p]]

\* C3: when the store file was last written under master password P1 and can
\* be opened, a session that enters P2 # P1 never reaches the menu (it gets
\* no mapping, not even an empty one): load_passwords ends the process with
\* a non-zero exit code; and a process exits with code 0 only by choosing
\* option 4 in the menu.
C3_WrongPassphraseRejected ==
    [][\A p \in Procs :
        /\ ( /\ LoadStep(p)
             /\ storage_file.exists /\ storage_file.readable
             /\ master_password'[p] # writer )
           => /\ pc'[p] = "exited"
              /\ exit_code'[p] \in {<<1>>, <<101>>}
              /\ store'[p] = {}
        /\ (pc[p] # "exited" /\ pc'[p] = "exited" /\ exit_code'[p] = <<0>>)
           => (pc[p] = "menu" /\ event'.op = "exit")
      ]_vars

\* A session that entered a master password other than the writer's was
\* refused on an intact, readable file.
C3_Witness ==
    \E p \in Procs :
        /\ After(p, "load") /\ pc[p] = "exited" /\ exit_code[p] = <<1>>
        /\ storage_file.exists /\ storage_file.readable /\ ~tampered
        /\ writer \in Passphrases /\ master_password[p] # writer

\* C4: if the bytes of the store file are not a blob that encrypt_data makes
\* under the session's key (a bit was flipped, or the file was cut short or
\* emptied), decrypt_data returns None for them and load_passwords ends the
\* process: the session reaches no menu and holds no mapping.
C4_TamperDetected ==
    [][\A p \in Procs :
        ( /\ LoadStep(p)
          /\ storage_file.exists /\ storage_file.readable
          /\ storage_file.bytes \notin SealedBlobs[master_password'[p]] )
        => /\ decrypt_data(generate_key_from_password(master_password'[p]),
                           storage_file.bytes) = None
           /\ pc'[p] = "exited"
           /\ exit_code'[p] \in {<<1>>, <<101>>}
           /\ store'[p] = {}
      ]_vars

\* The writer's own master password was refused on a file that was altered
\* but is still longer than a tag.
C4_Witness ==
    \E p \in Procs :
        /\ After(p, "load") /\ pc[p] = "exited" /\ exit_code[p] = <<1>>
        /\ tampered /\ master_password[p] = writer
        /\ Len(storage_file.bytes) > TagLen
        /\ storage_file.bytes \notin SealedBlobs[writer]

\* C5: in a session, after upsert(account, a) and later upsert(account, b),
\* whatever else was done in between, the mapping holds b for the account,
\* lookup(account) prints b, and enumerate prints the account exactly once;
\* no account name ever occurs twice in the mapping.
C5_IdempotentOverwrite ==
    \A p \in Procs :
        pc[p] = "menu" =>
            /\ \A e, f \in store[p] : e[1] = f[1] => e = f
            /\ \A u \in upserted[p] :
                /\ Get(store[p], u[1]) = Some(u[2])
                /\ (After(p, "retrieve") /\ event.account = u[1])
                       => event.out = <<u[2]>>
                /\ After(p, "list")
                       => Cardinality({ i \in DOMAIN event.out :
                                          event.out[i] = u[1] }) = 1

\* A lookup printed the second of two different secrets given for an account.
C5_Witness ==
    \E p \in Procs :
        \E u \in upserted[p] :
            /\ u[3]
            /\ After(p, "retrieve") /\ event.account = u[1]
            /\ event.out = <<u[2]>>

\* C6: when no file exists at the store path, load_passwords returns the
\* empty mapping and the session is in the menu, whatever the passphrase.
C6_EmptyStoreBootstrap ==
    \A p \in Procs :
        After(p, "load") /\ ~storage_file.exists =>
            pc[p] = "menu" /\ store[p] = {} /\ exit_code[p] = <<>>

\* A session that found no file, in the menu with the empty mapping.
C6_Witness ==
    \E p \in Procs :
        /\ After(p, "load") /\ ~storage_file.exists
        /\ pc[p] = "menu" /\ store[p] = {}
        /\ master_password[p] \in Passphrases

\* C7 (as claimed): when the store file exists but cannot be opened, load is
\* a hard failure: the process ends with a non-zero exit code and no session
\* holds a mapping that a later upsert would save over the file.
C7_UnreadableIsHardFailure ==
    \A p \in Procs :
        After(p, "load") /\ storage_file.exists /\ ~storage_file.readable =>
            pc[p] = "exited" /\ exit_code[p] # <<0>>

\* C8: a lookup (found or not), an enumerate and an invalid choice change
\* neither the mapping nor the store file, save nothing, and leave the
\* session in the menu loop.
C8_ReadOnlyOptions ==
    [][\A p \in Procs :
        (event'.proc = p /\ event'.op \in {"retrieve", "list", "invalid"})
        => /\ store' = store
           /\ storage_file' = storage_file
           /\ writer' = writer /\ tampered' = tampered
           /\ pc[p] = "menu" /\ pc'[p] = "menu"
      ]_vars

\* A lookup of an absent account, with a store file on disk.
C8_Witness ==
    \E p \in Procs :
        /\ After(p, "retrieve") /\ event.out = <<>>
        /\ Get(store[p], event.account) = None
        /\ store[p] # {}
        /\ pc[p] = "menu" /\ storage_file.exists

\* C9 (as claimed): right after save_passwords wrote mapping m, the file is
\* the ciphertext of to_vec(m) followed by one 16-byte tag: its length is
\* Len(to_vec(m)) + 16 and it decrypts to to_vec(m) with nothing appended.
C9_BlobLayout ==
    \A p \in Procs :
        After(p, "add") =>
            \E order \in IterOrders(store[p]) :
                /\ Len(storage_file.bytes) = Len(to_vec(order)) + TagLen
                /\ decrypt_data(generate_key_from_password(master_password[p]),
                                storage_file.bytes) = Some(to_vec(order))

\* C10 (as claimed): the store file is not opened between the reading of
\* the passphrase and the first menu operation the user chooses.
C10_NoFileIoBeforeFirstOperation ==
    \A p \in Procs :
        pc[p] = "menu" /\ After(p, "load") => opened[p] = 0

\* C10 (amended): no file is opened before the passphrase is read, and
\* load_passwords opens the store file exactly once, right after the
\* passphrase is read and before the first menu prompt; no menu operation
\* opens it for reading again.
C10_LoadRightAfterPassphrase ==
    \A p \in Procs :
        /\ pc[p] \in {"off", "start"} => opened[p] = 0
        /\ pc[p] = "menu" => opened[p] = 1

\* A session at its first menu prompt, the file already opened.
C10_Witness ==
    \E p \in Procs :
        pc[p] = "menu" /\ After(p, "load") /\ opened[p] = 1

\* The two ways the bytes of a file that was read can fail under password:
\* decrypt_data returns None, or it returns bytes that from_slice rejects.
AuthFails(file, password) ==
    ~decrypt_data(generate_key_from_password(password), file.bytes).some

DecodeFails(file, password) ==
    LET decrypted ==
            decrypt_data(generate_key_from_password(password), file.bytes)
    IN  decrypted.some /\ ~from_slice(decrypted.val).ok

\* The store file was read in full by the load that process p just made.
JustRead(p) ==
    /\ After(p, "load")
    /\ storage_file.exists /\ storage_file.readable
    /\ exit_code[p] # <<101>>

\* C11 (as claimed): a load that fails to authenticate and a load that
\* decrypts but fails to decode have the same outcome for the user: the
\* "Possibly wrong password." line and the end of the process.
C11_SameDiagnostic ==
    \A p \in Procs :
        ( /\ JustRead(p)
          /\ \/ AuthFails(storage_file, master_password[p])
             \/ DecodeFails(storage_file, master_password[p]) )
        => /\ event.out = <<DecryptFailedMsg>>
           /\ pc[p] = "exited" /\ exit_code[p] = <<1>>

\* C11 (amended): the "Possibly wrong password." line and exit code 1 are
\* the outcome of an authentication failure only, whatever made the
\* authentication fail; a load that decrypts but fails to decode prints
\* nothing and leaves the session in the menu with the empty mapping.
C11_DiagnosticOnlyOnAuthFailure ==
    \A p \in Procs :
        JustRead(p) =>
            /\ AuthFails(storage_file, master_password[p])
                   => /\ event.out = <<DecryptFailedMsg>>
                      /\ pc[p] = "exited" /\ exit_code[p] = <<1>>
            /\ DecodeFails(storage_file, master_password[p])
                   => /\ event.out = <<>>
                      /\ pc[p] = "menu" /\ exit_code[p] = <<>>
                      /\ store[p] = {}

\* A load that decrypted the file and could not decode it, and printed
\* nothing.
C11_Witness ==
    \E p \in Procs :
        /\ JustRead(p)
        /\ DecodeFails(storage_file, master_password[p])
        /\ event.out = <<>> /\ pc[p] = "menu"

\* C12: after a crash inside save_passwords the store file is empty or a
\* strict prefix of the blob that was being written; it is no blob of any
\* mapping under any passphrase (neither the old one nor the new one), and
\* a load under the passphrase of the cut-off save fails to authenticate:
\* the session ends with exit code 1 and holds no mapping.
C12_TornSaveLosesStore ==
    torn =>
        /\ storage_file.exists
        /\ \E blob \in SealedBlobs[writer] :
              /\ Len(storage_file.bytes) < Len(blob)
              /\ storage_file.bytes = SubSeq(blob, 1, Len(storage_file.bytes))
        /\ \A password \in Passphrases :
              storage_file.bytes \notin SealedBlobs[password]
        /\ storage_file.readable =>
              LET r == load_passwords(storage_file, writer, TRUE)
              IN  ~r.returned /\ r.code = 1
        /\ \A p \in Procs :
              JustRead(p) =>
                 pc[p] = "exited" /\ exit_code[p] = <<1>> /\ store[p] = {}

\* The passphrase of the cut-off save was refused on a file that is a
\* prefix longer than a tag.
C12_Witness ==
    \E p \in Procs :
        /\ torn /\ JustRead(p)
        /\ master_password[p] = writer
        /\ pc[p] = "exited" /\ exit_code[p] = <<1>>
        /\ Len(storage_file.bytes) > TagLen

\* <<password, m, blob>> for every blob that encrypt_data makes of mapping
\* m under the key of password; the store file holds m for password when
\* its bytes are such a blob.
SealedAs ==
    UNION { { <<password, m,
                encrypt_data(generate_key_from_password(password),
                             to_vec(order))>> : order \in IterOrders(m) } :
            password \in Passphrases, m \in AllMappings }

FileHolds(m, password) == <<password, m, storage_file.bytes>> \in SealedAs

\* C13: with two sessions a and b in the menu under the same master
\* password, right after an upsert by b the store file holds b's mapping
\* and no other: an entry that a holds (and has saved) and b does not is not
\* in the file, and the file does not hold a's mapping when the two differ.
\* save_passwords neither rereads nor locks the file.
C13_LostUpdate ==
    \A a, b \in Procs :
        ( /\ a # b
          /\ After(b, "add") /\ pc[a] = "menu"
          /\ master_password[a] = master_password[b] )
        => /\ FileHolds(store[b], master_password[b])
           /\ \A m \in AllMappings :
                 FileHolds(m, master_password[b]) => m = store[b]
           /\ \A e \in store[a] \ store[b] :
                 \A m \in AllMappings :
                    FileHolds(m, master_password[b]) => e \notin m
           /\ store[a] # store[b] => ~FileHolds(store[a], master_password[a])

\* Session a has upserted (and saved) account x in the empty store it
\* loaded; session b, which does not hold x, has just upserted another
\* account y: the file holds y only.
C13_Witness ==
    \E a, b \in Procs :
        /\ a # b
        /\ After(b, "add") /\ pc[a] = "menu"
        /\ master_password[a] = master_password[b]
        /\ \E u \in upserted[a] :
              /\ u[1] # event.account
              /\ <<u[1], u[2]>> \in store[a]
              /\ \A e \in store[b] : e[1] # u[1]
        /\ Cardinality(store[b]) = 1
        /\ FileHolds(store[b], master_password[b])
        /\ ~FileHolds(store[a], master_password[a])

\* <<password, plaintext, blob>> for every mapping: blob is the plaintext
\* (the serialized mapping and the 16 bytes encrypt_data puts behind it)
\* sealed under the key of password and the nonce of 12 zero bytes.
ZeroNonceSeals ==
    UNION { { <<password, to_vec(order) \o Zeros(TagLen),
                seal_in_place_append_tag(
                    generate_key_from_password(password), Zeros(NonceLen),
                    to_vec(order) \o Zeros(TagLen))>> :
              order \in IterOrders(m) } :
            password \in Passphrases, m \in AllMappings }

SealedUnderZeroNonce(password, blob) ==
    { s \in ZeroNonceSeals : s[1] = password /\ s[3] = blob }

\* C14: the nonce of encrypt_data and of decrypt_data is the same 12 zero
\* bytes (96 bits) and the key is made of the master password alone: every
\* save writes a blob sealed under that (key, nonce) pair, and decrypt_data
\* opens it under the same pair; when the file it replaces is an intact blob
\* of another save under the same master password (of this session or of an
\* earlier one) with other bytes, two different plaintexts have been sealed
\* under one (key, nonce) pair.
C14_NonceReuse ==
    [][\A p \in Procs :
        (event'.proc = p /\ event'.op = "add") =>
            LET k == generate_key_from_password(master_password[p])
                new == SealedUnderZeroNonce(master_password[p],
                                            storage_file'.bytes)
                old == SealedUnderZeroNonce(master_password[p],
                                            storage_file.bytes)
            IN  /\ nonce_bytes = Zeros(NonceLen) /\ 8 * NonceLen = 96
                /\ new # {}
                /\ decrypt_data(k, storage_file'.bytes)
                       = open_in_place(k, Zeros(NonceLen), storage_file'.bytes)
                /\ decrypt_data(k, storage_file'.bytes).some
                /\ ( /\ storage_file.exists /\ ~tampered /\ ~torn
                     /\ writer = master_password[p]
                     /\ storage_file.bytes # storage_file'.bytes )
                   => \E s \in old, t \in new : s[2] # t[2]
      ]_vars

\* A session has saved a second secret for an account: its second blob, of
\* another plaintext, under the same key and the zero nonce.
C14_Witness ==
    \E p \in Procs :
        /\ After(p, "add")
        /\ \E u \in upserted[p] : u[3] /\ u[1] = event.account
        /\ writer = master_password[p]
        /\ SealedUnderZeroNonce(writer, storage_file.bytes) # {}

\* C15: when decrypt_data succeeds on the bytes of the store file and
\* from_slice rejects the plaintext, load_passwords returns the empty
\* mapping: the session is in the menu, nothing was printed, no exit code
\* is set and the file is as it was; the first upsert of that session then
\* writes a blob that holds the new entry and nothing else.
C15_LenientDecodeFallback ==
    [][\A p \in Procs :
        /\ ( /\ LoadStep(p)
             /\ storage_file.exists /\ storage_file.readable
             /\ exit_code'[p] # <<101>>
             /\ DecodeFails(storage_file, master_password'[p]) )
           => /\ pc'[p] = "menu" /\ exit_code'[p] = <<>>
              /\ store'[p] = {}
              /\ event'.out = <<>>
              /\ storage_file' = storage_file
        /\ ( /\ event'.proc = p /\ event'.op = "add"
             /\ upserted[p] = {}
             /\ storage_file.exists /\ storage_file.readable
             /\ DecodeFails(storage_file, master_password[p]) )
           => /\ Cardinality(store'[p]) = 1
              /\ \A e \in store'[p] : e[1] = event'.account
              /\ <<master_password[p], store'[p], storage_file'.bytes>>
                     \in SealedAs
              /\ \A m \in AllMappings :
                    <<master_password[p], m, storage_file'.bytes>> \in SealedAs
                        => m = store'[p]
      ]_vars

\* A session that typed the writer's master password on the intact file the
\* writer saved, a blob of a mapping that is not empty, is in the menu with
\* the empty mapping: the plaintext did not decode.
C15_Witness ==
    \E p \in Procs :
        /\ JustRead(p) /\ ~tampered /\ ~torn
        /\ writer = master_password[p]
        /\ \E m \in AllMappings : m # {} /\ FileHolds(m, writer)
        /\ DecodeFails(storage_file, writer)
        /\ pc[p] = "menu" /\ store[p] = {} /\ exit_code[p] = <<>>

\* C16: a session whose load fails to authenticate writes nothing: the load
\* step that ends the process with exit code 1 leaves the store file as it
\* was (its existence, its permission and its bytes), and so does every
\* step of a process that is not in the menu; the file changes by the hand
\* of a process only in option 1 of a session that reached the menu.
C16_FailedLoadWritesNothing ==
    [][\A p \in Procs :
        /\ (LoadStep(p) /\ exit_code'[p] = <<1>>)
           => /\ AuthFails(storage_file, master_password'[p])
              /\ pc'[p] = "exited"
              /\ storage_file' = storage_file
        /\ (event'.proc = p /\ pc[p] # "menu")
           => storage_file' = storage_file
        /\ (event'.proc = p /\ storage_file' # storage_file)
           => pc[p] = "menu" /\ event'.op = "add"
      ]_vars

\* A session was refused with exit code 1, and the blob some session saved
\* earlier is still in the file, whole.
C16_Witness ==
    \E p \in Procs :
        /\ After(p, "load") /\ pc[p] = "exited" /\ exit_code[p] = <<1>>
        /\ AuthFails(storage_file, master_password[p])
        /\ \E m \in AllMappings : m # {} /\ FileHolds(m, writer)

====
